---- MODULE Spec2Model ----
(***************************************************************************)
(* Position estimation (simulate.py) and feed loading (gtfs_rt.py) of the  *)
(* J/Z/M real-time tracker.                                                *)
(*                                                                         *)
(* Five specifications share the variables of this module:                 *)
(*   SpecPoints   rt_to_points, one loop iteration at a time               *)
(*   SpecArr      next_arrivals_for_stop                                   *)
(*   SpecInterp   interpolate_on_segment as a pure function                *)
(*   SpecLoad     load_rt_entities / fetch_feed                            *)
(*   SpecRender   the render signature of streamlit_app.py, run by run     *)
(*                                                                         *)
(* Conventions.                                                            *)
(*  - An arrival/departure time is a natural number; NoTime (0) stands for *)
(*    both Python None and a protobuf time of 0: every use in the code     *)
(*    (`x or y`, `not t0`, `if t and ...`) treats the two alike.           *)
(*  - Coordinates are integers (degrees * 100); an interpolated value is   *)
(*    the exact rational <<numerator, denominator>>.                       *)
(*  - The event list of a trip-update is read lazily: the scan of          *)
(*    rt_to_points only ever looks at times[0], times[i] and times[i+1],   *)
(*    so the model chooses times[i+1] when the scan reaches it.            *)
(***************************************************************************)
EXTENDS Integers, Sequences, FiniteSets, TLC

\* ---------------------------------------------------------------- bounds
MaxTime == 3
MaxEvents == 3
MaxArrivals == 3
MaxResults == 2
MaxFeedLen == 1
MaxTrainPoints == 2

\* ------------------------------------------------------- program constants
NoTime == 0

\* ------------------------------------------------------------ static data
ROUTES == {"J", "Z", "M"}

NoRoute == "<None>"

StopIds == {"S1", "S2", "SX"}

\* stops_lookup(static["stops"]): S1 and S2 are in the stops table, SX is not.
stop_coord == [s \in {"S1", "S2"} |-> IF s = "S1" THEN <<4070, -7393>> ELSE <<4071, -7394>>]

TripIds == {"T1", "T2"}

\* trips.set_index("trip_id")["route_id"].to_dict(): T1 is a static trip of
\* route M, T2 is not in the static table.
trip_route == [t \in {"T1"} |-> "M"]

RtRoutes == {"", "J", "B"}

Times == NoTime .. MaxTime

NowSet == {MaxTime - 1}

\* One stop_time_update as line 80 stores it: dict(stop_id, arr, dep).
Events == [stop_id : StopIds, arr : Times, dep : Times]

\* The local `b` before any assignment in this call.
Unbound == [stop_id |-> "<unbound>", arr |-> NoTime, dep |-> NoTime]

NoEvent == [stop_id |-> "<none>", arr |-> NoTime, dep |-> NoTime]

\* ------------------------------------------------------------ pure helpers
Max(x, y) == IF x >= y THEN x ELSE y

Min(x, y) == IF x <= y THEN x ELSE y

\* Python `x or y` on times.
PyOr(x, y) == IF x # NoTime THEN x ELSE y

\* np.clip(num / den, 0.0, 1.0) for den > 0, as the numerator over den.
ClipNum(num, den) == Max(0, Min(num, den))

\* Variant of interpolate_on_segment with dur = max(1, t1 - t0 + 1).
interpolate_inclusive(a_latlon, b_latlon, t0, t1, nw) ==
  LET dur == Max(1, t1 - t0 + 1)
      alpha == ClipNum(nw - t0, dur)
  IN  [lat   |-> <<a_latlon[1] * dur + (b_latlon[1] - a_latlon[1]) * alpha, dur>>,
       lon   |-> <<a_latlon[2] * dur + (b_latlon[2] - a_latlon[2]) * alpha, dur>>,
       alpha |-> <<alpha, dur>>]

\* interpolate_on_segment: (lat, lon, alpha), each an exact rational.
interpolate_on_segment(a_latlon, b_latlon, t0, t1, nw) ==
  LET dur == Max(1, t1 - t0)
      alpha == ClipNum(nw - t0, dur)
  IN  [lat   |-> <<a_latlon[1] * dur + (b_latlon[1] - a_latlon[1]) * alpha, dur>>,
       lon   |-> <<a_latlon[2] * dur + (b_latlon[2] - a_latlon[2]) * alpha, dur>>,
       alpha |-> <<alpha, dur>>]

\* route_id = (tu.trip.route_id if non-empty else None) or trip_route.get(trip_id)
ResolveRoute(rt, trip) ==
  IF rt # "" THEN rt
  ELSE IF trip \in DOMAIN trip_route THEN trip_route[trip] ELSE NoRoute

\* Variant of Admitted that keeps only known J/Z/M routes.
AdmittedKnownOnly(route) == route \in {"J", "Z", "M"}

\* `if route_id not in {"J", "Z", "M", None}: continue`, negated.
Admitted(route) == route \in {"J", "Z", "M", NoRoute}

\* Variant of SegStart that prefers the arrival.
SegStartArrivalFirst(a) == PyOr(a.arr, a.dep)

\* t0 = a.get("dep") or a.get("arr")
SegStart(a) == PyOr(a.dep, a.arr)

\* t1 = b.get("arr") or b.get("dep")
SegEnd(e) == PyOr(e.arr, e.dep)

\* `if not t0 or not t1: continue`, negated.
Bounded(t0, t1) == t0 # NoTime /\ t1 # NoTime

\* `if t0 <= now <= t1`
Active(t0, t1, nw) == t0 <= nw /\ nw <= t1

\* stop_coord.get(stop_id) is truthy
HasCoord(s) == s \in DOMAIN stop_coord

\* eta = max(0, t1 - now)
SegEta(t1, nw) == Max(0, t1 - nw)

\* TrainPoint(lat, lon, route_id, trip_id, b["stop_id"], eta) of line 100.
SegPoint(a, e, t0, t1, nw, route, trip) ==
  LET r == interpolate_on_segment(stop_coord[a.stop_id], stop_coord[e.stop_id], t0, t1, nw)
  IN  [lat |-> r.lat, lon |-> r.lon, route_id |-> route, trip_id |-> trip,
       next_stop_id |-> e.stop_id, eta_sec |-> SegEta(t1, nw)]

\* t0 = first.get("arr") or first.get("dep")
FirstTime(f) == PyOr(f.arr, f.dep)

\* Variant of PinCond without the test now < t0.
PinCondAnyTime(f, nw) == FirstTime(f) # NoTime /\ HasCoord(f.stop_id)

\* `if t0 and now < t0 and first["stop_id"] in stop_coord`
PinCond(f, nw) == FirstTime(f) # NoTime /\ nw < FirstTime(f) /\ HasCoord(f.stop_id)

\* TrainPoint(lat, lon, route_id or "?", trip_id, b["stop_id"], eta) of line 110.
PinPoint(f, bb, nw, route, trip) ==
  [lat |-> <<stop_coord[f.stop_id][1], 1>>, lon |-> <<stop_coord[f.stop_id][2], 1>>,
   route_id |-> IF route = NoRoute THEN "?" ELSE route, trip_id |-> trip,
   next_stop_id |-> bb.stop_id, eta_sec |-> FirstTime(f) - nw]

\* ------------------------------------------------- next_arrivals_for_stop
\* The stop_id argument.
HomeStop == "S1"

\* t = (u.arrival.time if present else None) or (u.departure.time if present else None)
ArrTime(u) == PyOr(u.arr, u.dep)

\* `if u.stop_id == stop_id:` ... `if t and t >= now:`
ArrAdmit(u, stop, nw) == u.stop_id = stop /\ ArrTime(u) # NoTime /\ ArrTime(u) >= nw

RECURSIVE InsertBefore(_, _)
\* x goes before the first element that is not earlier than it.
InsertBefore(x, s) ==
  IF s = <<>> THEN <<x>>
  ELSE IF x.t <= Head(s).t THEN <<x>> \o s
       ELSE <<Head(s)>> \o InsertBefore(x, Tail(s))

RECURSIVE SortByTimeUnstable(_)
\* Variant of SortByTime that puts equal times in reverse scan order.
SortByTimeUnstable(s) ==
  IF s = <<>> THEN <<>>
  ELSE InsertBefore(s[Len(s)], SortByTimeUnstable(SubSeq(s, 1, Len(s) - 1)))

RECURSIVE InsertByTime(_, _)
\* x, which comes after the elements of s in scan order, goes after every
\* element that is not later than it.
InsertByTime(x, s) ==
  IF s = <<>> THEN <<x>>
  ELSE IF x.t < Head(s).t THEN <<x>> \o s
       ELSE <<Head(s)>> \o InsertByTime(x, Tail(s))

RECURSIVE SortByTime(_)
\* arrivals.sort(key=lambda x: x[1]): list.sort is stable.
SortByTime(s) ==
  IF s = <<>> THEN <<>>
  ELSE InsertByTime(s[Len(s)], SortByTime(SubSeq(s, 1, Len(s) - 1)))

\* arrivals[:max_results] for max_results >= 0.
Take(s, n) == SubSeq(s, 1, Min(n, Len(s)))

\* ------------------------------------------------------- load_rt_entities
\* DEFAULT_FEEDS, in dict order.
FeedNames == <<"gtfs-jz", "gtfs-bdfm">>

\* What one _fetch can end in: a decoded feed, raise_for_status raising
\* HTTPError, requests.get raising another RequestException, or
\* ParseFromString raising DecodeError.
FetchResults == {"ok", "HTTPError", "ConnectionError", "DecodeError"}

NotTried == "not_tried"

FeedEntityIds == {"e1", "e2"}

RECURSIVE SeqsUpTo(_, _)
SeqsUpTo(S, n) ==
  IF n = 0 THEN {<<>>}
  ELSE SeqsUpTo(S, n - 1) \cup {Append(q, x) : q \in SeqsUpTo(S, n - 1), x \in S}

FeedContents == SeqsUpTo(FeedEntityIds, MaxFeedLen)

\* fetch_feed: the primary URL, and on HTTPError alone the fallback URL when
\* FALLBACK_MAP has one. The value is what fetch_feed ends in, and what the
\* second _fetch ended in (NotTried when it was not made).
fetch_feed(primary, fb_known, fallback) ==
  IF primary = "ok" THEN [kind |-> "ok", second |-> NotTried]
  ELSE IF primary = "HTTPError" /\ fb_known THEN [kind |-> fallback, second |-> fallback]
  ELSE [kind |-> primary, second |-> NotTried]

\* Variant of Caught for `except requests.HTTPError`.
CaughtHttpOnly(kind) == kind = "HTTPError"

\* `except Exception`: every error a fetch can end in is an Exception.
Caught(kind) == kind \in {"HTTPError", "ConnectionError", "DecodeError"}

\* --------------------------------------- the segment rule as it is stated
\* t0 = A.departure, else A.arrival.
StatedStart(a) == IF a.dep # NoTime THEN a.dep ELSE a.arr

\* t1 = B.arrival, else B.departure.
StatedEnd(e) == IF e.arr # NoTime THEN e.arr ELSE e.dep

\* Both bounds are present and t0 <= now <= t1.
StatedActive(a, e, nw) ==
  /\ StatedStart(a) # NoTime
  /\ StatedEnd(e) # NoTime
  /\ StatedStart(a) <= nw
  /\ nw <= StatedEnd(e)

\* --------------------------------------- the arrival rule as it is stated
\* The time of an event: its arrival, else its departure.
StatedTime(u) == IF u.arr # NoTime THEN u.arr ELSE u.dep

\* The event is at the stop asked for and its time is present and >= now.
StatedAdmit(u, stop, nw) == u.stop_id = stop /\ StatedTime(u) # NoTime /\ StatedTime(u) >= nw

\* ------------------------------------------------------------------ state
VARIABLES
  pc,        \* position in rt_to_points: "loop", "parse", "scan", "fallback", "done", "returned", "raised"
  now,       \* int(time.time()) of line 52
  ent,       \* the entity of the current iteration: [has_tu, rt_route, trip_id]
  route_id,  \* local route_id
  first,     \* times[0]
  b,         \* local b: survives from one entity to the next
  i,         \* loop index of line 87
  second,    \* stop id of times[1], "<none>" while times has one element
  seg,       \* the pair on which line 93 held, <<>> or one record: a_stop and
             \* t0 as the code has them (its B is b), stated_t0 and stated_active
             \* as StatedStart and StatedActive give them for the same pair
  passed,    \* TRUE once the scan went past a pair for which StatedActive holds
  added,     \* what this iteration appended to points: <<>> or <<TrainPoint>>
  outcome,   \* how the last finished iteration ended
  \* next_arrivals_for_stop
  apc,         \* "idle", "scan", "returned"
  arrivals,    \* the list of line 116, a sequence of [route, t]
  stated,      \* the events the stated filter admits, in scan order
  max_results, \* the argument, read by line 128
  result,      \* the returned list
  \* interpolate_on_segment
  iargs,       \* [a, b, t0, t1, now]
  ires,        \* <<>> before the call, <<(lat, lon, alpha)>> after it
  \* load_rt_entities
  lpc,         \* "idle", "feeds", "returned", "raised"
  has_fb,      \* per feed: FALLBACK_MAP has an entry for its URL
  feed_idx,    \* position in DEFAULT_FEEDS.items()
  ents,        \* the list of line 47
  log,         \* per feed fetched: what the first and the second _fetch ended
               \* in, and the entities the feed held
  \* streamlit_app.py, the script from line 213 on
  train_points,    \* the list `sig` was computed from in the latest run
  prev_points,     \* <<>> in the first run, then <<train_points of the run before>>
  last_trains_sig, \* st.session_state: <<>> while the key is absent, else <<sig>>
  recreated        \* the latest run took the branch of line 255 (a new Deck)

pvars == <<pc, ent, route_id, first, b, i, second, seg, passed, added, outcome>>

avars == <<apc, arrivals, stated, max_results, result>>

ivars == <<iargs, ires>>

lvars == <<lpc, has_fb, feed_idx, ents, log>>

rvars == <<train_points, prev_points, last_trains_sig, recreated>>

vars == <<now, pvars, avars, ivars, lvars, rvars>>

NoArgs == [a |-> <<0, 0>>, b |-> <<0, 0>>, t0 |-> 0, t1 |-> 0, now |-> 0]

NoEntity == [has_tu |-> FALSE, rt_route |-> "", trip_id |-> ""]

Entities == [has_tu : BOOLEAN, rt_route : RtRoutes, trip_id : TripIds]

\* times[i]: the element the next iteration of line 88 binds to `a`.
Cur == IF i = 0 THEN first ELSE b

PointsIdle ==
  /\ pc = "idle"
  /\ ent = NoEntity
  /\ route_id = NoRoute
  /\ first = NoEvent
  /\ b = Unbound
  /\ i = 0
  /\ second = "<none>"
  /\ seg = <<>>
  /\ passed = FALSE
  /\ added = <<>>
  /\ outcome = "idle"

ArrIdle ==
  /\ apc = "idle"
  /\ arrivals = <<>>
  /\ stated = <<>>
  /\ max_results = 0
  /\ result = <<>>

InterpIdle ==
  /\ iargs = NoArgs
  /\ ires = <<>>

LoadIdle ==
  /\ lpc = "idle"
  /\ has_fb = <<>>
  /\ feed_idx = 0
  /\ ents = <<>>
  /\ log = <<>>

RenderIdle ==
  /\ train_points = <<>>
  /\ prev_points = <<>>
  /\ last_trains_sig = <<>>
  /\ recreated = FALSE

\* rt_to_points after lines 47-56: now is read, points is empty, b is unbound.
InitPoints ==
  /\ pc = "loop"
  /\ now \in NowSet
  /\ ArrIdle /\ InterpIdle /\ LoadIdle /\ RenderIdle
  /\ ent = NoEntity
  /\ route_id = NoRoute
  /\ first = NoEvent
  /\ b = Unbound
  /\ i = 0
  /\ second = "<none>"
  /\ seg = <<>>
  /\ passed = FALSE
  /\ added = <<>>
  /\ outcome = "idle"

\* Lines 58-70: take the next entity; skip it without a trip_update or with a
\* route that is known and not J/Z/M.
NextEntity ==
  /\ pc = "loop"
  /\ \E e \in Entities :
       /\ ent' = e
       /\ route_id' = IF e.has_tu THEN ResolveRoute(e.rt_route, e.trip_id) ELSE NoRoute
       /\ IF ~e.has_tu
            THEN pc' = "done" /\ outcome' = "no_payload"
            ELSE IF ~Admitted(ResolveRoute(e.rt_route, e.trip_id))
                   THEN pc' = "done" /\ outcome' = "excluded"
                   ELSE pc' = "parse" /\ outcome' = "running"
  /\ UNCHANGED <<now, first, b, i, second, seg, passed, added>>
  /\ UNCHANGED <<avars, ivars, lvars, rvars>>

\* Lines 72-83 with no stop_time_update: `if not times: continue`.
ParseEmpty ==
  /\ pc = "parse"
  /\ pc' = "done"
  /\ outcome' = "no_events"
  /\ UNCHANGED <<now, ent, route_id, first, b, i, second, seg, passed, added>>
  /\ UNCHANGED <<avars, ivars, lvars, rvars>>

\* Lines 72-86 with at least one stop_time_update: times[0] is read.
ParseTimes ==
  /\ pc = "parse"
  /\ \E e \in Events : first' = e
  /\ pc' = "scan"
  /\ UNCHANGED <<now, ent, route_id, b, i, second, seg, passed, added, outcome>>
  /\ UNCHANGED <<avars, ivars, lvars, rvars>>

\* Lines 87-102, one iteration: a = times[i], b = times[i + 1].
ScanPair ==
  /\ pc = "scan"
  /\ i + 1 < MaxEvents
  /\ \E e \in Events :
       LET a  == Cur
           t0 == SegStart(a)
           t1 == SegEnd(e)
       IN  /\ b' = e
           /\ second' = IF i = 0 THEN e.stop_id ELSE second
           /\ IF Bounded(t0, t1) /\ Active(t0, t1, now)
                THEN /\ seg' = <<[a_stop |-> a.stop_id, t0 |-> t0,
                                   stated_t0 |-> StatedStart(a),
                                   stated_active |-> StatedActive(a, e, now)]>>
                     /\ i' = i
                     /\ passed' = passed
                     /\ IF HasCoord(a.stop_id) /\ HasCoord(e.stop_id)
                          THEN /\ added' = <<SegPoint(a, e, t0, t1, now, route_id, ent.trip_id)>>
                               /\ pc' = "done"
                               /\ outcome' = "placed"
                          ELSE /\ added' = added
                               /\ pc' = "fallback"
                               /\ outcome' = outcome
                ELSE /\ i' = i + 1
                     /\ passed' = (passed \/ StatedActive(a, e, now))
                     /\ UNCHANGED <<seg, added, pc, outcome>>
  /\ UNCHANGED <<now, ent, route_id, first>>
  /\ UNCHANGED <<avars, ivars, lvars, rvars>>

\* Line 87: range(len(times) - 1) is exhausted without a break.
EndScan ==
  /\ pc = "scan"
  /\ pc' = "fallback"
  /\ UNCHANGED <<now, ent, route_id, first, b, i, second, seg, passed, added, outcome>>
  /\ UNCHANGED <<avars, ivars, lvars, rvars>>

\* Lines 104-111: `if not placed`: pin to the first stop when now is before it.
Fallback ==
  /\ pc = "fallback"
  /\ IF PinCond(first, now)
       THEN IF b = Unbound
              THEN pc' = "raised" /\ added' = added /\ outcome' = "raised"
              ELSE /\ added' = <<PinPoint(first, b, now, route_id, ent.trip_id)>>
                   /\ pc' = "done"
                   /\ outcome' = "pinned"
       ELSE pc' = "done" /\ added' = added /\ outcome' = "none"
  /\ UNCHANGED <<now, ent, route_id, first, b, i, second, seg, passed>>
  /\ UNCHANGED <<avars, ivars, lvars, rvars>>

\* Line 58, back at the loop head after an iteration (its end, or a
\* `continue`): times, placed and i are rebuilt by the next iteration; b is not.
Continue ==
  /\ pc = "done"
  /\ pc' = "loop"
  /\ ent' = NoEntity
  /\ route_id' = NoRoute
  /\ first' = NoEvent
  /\ i' = 0
  /\ second' = "<none>"
  /\ seg' = <<>>
  /\ passed' = FALSE
  /\ added' = <<>>
  /\ outcome' = "idle"
  /\ UNCHANGED <<now, b>>
  /\ UNCHANGED <<avars, ivars, lvars, rvars>>

\* Line 112: the entities are exhausted; the locals go with the frame.
ReturnPoints ==
  /\ pc = "loop"
  /\ pc' = "returned"
  /\ b' = Unbound
  /\ UNCHANGED <<now, ent, route_id, first, i, second, seg, passed, added, outcome>>
  /\ UNCHANGED <<avars, ivars, lvars, rvars>>

NextPoints ==
  \/ NextEntity
  \/ ParseEmpty
  \/ ParseTimes
  \/ ScanPair
  \/ EndScan
  \/ Fallback
  \/ Continue
  \/ ReturnPoints

SpecPoints == InitPoints /\ [][NextPoints]_vars

\* ------------------------------------------------- next_arrivals_for_stop
\* Lines 115-116: now is read, arrivals is empty.
InitArr ==
  /\ now \in NowSet
  /\ PointsIdle /\ InterpIdle /\ LoadIdle /\ RenderIdle
  /\ apc = "scan"
  /\ arrivals = <<>>
  /\ stated = <<>>
  /\ max_results \in 0 .. MaxResults
  /\ result = <<>>

\* Lines 117-126 for one stop_time_update u of an entity: nothing is kept of
\* an entity without trip_update; otherwise (route_id, t) is appended when u
\* is at the stop asked for and t is present and >= now.
ArrScan ==
  /\ apc = "scan"
  /\ Len(arrivals) < MaxArrivals
  /\ Len(stated) < MaxArrivals
  /\ \E has_tu \in BOOLEAN, r \in RtRoutes, u \in Events :
       /\ arrivals' = IF has_tu /\ ArrAdmit(u, HomeStop, now)
                        THEN Append(arrivals, [route |-> r, t |-> ArrTime(u)])
                        ELSE arrivals
       /\ stated' = IF has_tu /\ StatedAdmit(u, HomeStop, now)
                      THEN Append(stated, [route |-> r, t |-> StatedTime(u)])
                      ELSE stated
  /\ UNCHANGED <<now, apc, max_results, result>>
  /\ UNCHANGED <<pvars, ivars, lvars, rvars>>

\* Lines 127-128: sort in place, return the first max_results entries.
ArrReturn ==
  /\ apc = "scan"
  /\ apc' = "returned"
  /\ arrivals' = SortByTime(arrivals)
  /\ result' = Take(SortByTime(arrivals), max_results)
  /\ UNCHANGED <<now, stated, max_results>>
  /\ UNCHANGED <<pvars, ivars, lvars, rvars>>

NextArr ==
  \/ ArrScan
  \/ ArrReturn

SpecArr == InitArr /\ [][NextArr]_vars

\* ------------------------------------------------- interpolate_on_segment
Coords == {<<4070, -7393>>, <<4071, -7394>>, <<4068, -7390>>}

\* The arguments of one call.
InitInterp ==
  /\ now \in NowSet
  /\ PointsIdle /\ ArrIdle /\ LoadIdle /\ RenderIdle
  /\ iargs \in [a : Coords, b : Coords, t0 : 1 .. MaxTime, t1 : 1 .. MaxTime, now : 1 .. MaxTime]
  /\ ires = <<>>

\* Lines 34-41.
Interpolate ==
  /\ ires = <<>>
  /\ ires' = <<interpolate_on_segment(iargs.a, iargs.b, iargs.t0, iargs.t1, iargs.now)>>
  /\ UNCHANGED <<now, iargs>>
  /\ UNCHANGED <<pvars, avars, lvars, rvars>>

NextInterp == Interpolate

SpecInterp == InitInterp /\ [][NextInterp]_vars

\* ------------------------------------------------------- load_rt_entities
\* Line 47: ents is empty; whether a feed URL has a fallback depends on the
\* environment (JZ_FEED_URL, BDFM_FEED_URL).
InitLoad ==
  /\ now \in NowSet
  /\ PointsIdle /\ ArrIdle /\ InterpIdle /\ RenderIdle
  /\ lpc = "feeds"
  /\ has_fb \in [1 .. Len(FeedNames) -> BOOLEAN]
  /\ feed_idx = 1
  /\ ents = <<>>
  /\ log = <<>>

\* Lines 48-55, one iteration: fetch the feed; extend ents on success; on an
\* error that `except Exception` catches go on to the next feed.
LoadFeed ==
  /\ lpc = "feeds"
  /\ feed_idx <= Len(FeedNames)
  /\ \E primary \in FetchResults, fallback \in FetchResults, content \in FeedContents :
       LET r == fetch_feed(primary, has_fb[feed_idx], fallback)
       IN  /\ log' = Append(log, [first |-> primary, second |-> r.second,
                                   entity |-> content])
           /\ IF r.kind = "ok"
                THEN ents' = ents \o content /\ lpc' = lpc /\ feed_idx' = feed_idx + 1
                ELSE IF Caught(r.kind)
                       THEN ents' = ents /\ lpc' = lpc /\ feed_idx' = feed_idx + 1
                       ELSE ents' = ents /\ lpc' = "raised" /\ feed_idx' = feed_idx
  /\ UNCHANGED <<now, has_fb>>
  /\ UNCHANGED <<pvars, avars, ivars, rvars>>

\* Line 56.
ReturnEnts ==
  /\ lpc = "feeds"
  /\ feed_idx > Len(FeedNames)
  /\ lpc' = "returned"
  /\ UNCHANGED <<now, has_fb, feed_idx, ents, log>>
  /\ UNCHANGED <<pvars, avars, ivars, rvars>>

NextLoad ==
  \/ LoadFeed
  \/ ReturnEnts

SpecLoad == InitLoad /\ [][NextLoad]_vars

\* ------------------------------------------- streamlit_app.py: the signature
\* The dicts _normalize_points hands on for the estimates of rt_to_points:
\* lat and lon are set, route is the estimate's route id.
PointDicts == [lat : {4070, 4071}, lon : {-7393}, route : {"J", "M"}]

\* The lists of at most n dicts.
PointLists(n) == UNION {[1..k -> PointDicts] : k \in 0..n}

\* json.dumps(p, sort_keys=True) of one dict: its items, keys ascending.
DumpDict(p) == <<<<"lat", p.lat>>, <<"lon", p.lon>>, <<"route", p.route>>>>

\* Line 90, json.dumps(points, sort_keys=True): a JSON array of the dicts in
\* list order; sort_keys orders the keys inside each dict and nothing else.
json_dumps(points) == [k \in 1..Len(points) |-> DumpDict(points[k])]

\* Line 93, the coarse signature of the except branch, in list order too.
\* round(x, 4) leaves a coordinate of two decimals as it is.
CoarseSignature(points) ==
  [k \in 1..Len(points) |-> <<points[k].route, points[k].lat, points[k].lon>>]

\* json.dumps raises on a value it cannot serialise; the fields of an
\* estimate (floats, strings, an int, None) all serialise.
Dumpable(points) == \A k \in 1..Len(points) : points[k] \in PointDicts

\* Line 94: the digest of the text, taken as collision-free.
md5_hexdigest(s) == [md5 |-> s]

\* _hash_points, lines 87-94.
hash_points(points) ==
  md5_hexdigest(IF Dumpable(points) THEN json_dumps(points) ELSE CoarseSignature(points))

InitRender ==
  /\ now = 0
  /\ PointsIdle /\ ArrIdle /\ InterpIdle /\ LoadIdle
  /\ RenderIdle

\* One run of the script, lines 213-267: train_points is the list after
\* _normalize_points and the route filter (both keep the order of the list),
\* sig its signature; the deck is re-created when session_state holds no
\* signature or a different one, and only then is the signature stored.
Render ==
  /\ \E points \in PointLists(MaxTrainPoints) :
       LET sig == hash_points(points) IN
         /\ train_points' = points
         /\ prev_points' = IF last_trains_sig = <<>> THEN <<>> ELSE <<train_points>>
         /\ IF last_trains_sig = <<>> \/ last_trains_sig[1] # sig
              THEN /\ recreated' = TRUE
                   /\ last_trains_sig' = <<sig>>
              ELSE /\ recreated' = FALSE
                   /\ UNCHANGED last_trains_sig
  /\ UNCHANGED <<now, pvars, avars, ivars, lvars>>

NextRender == Render

SpecRender == InitRender /\ [][NextRender]_vars

\* ================================================================ claims
\* ------------------------------------------------------------ rt_to_points
\* The route a trip-update resolves to, as stated: the feed's own route id
\* when non-empty, else the static trip table's, else unknown.
StatedRoute(e) ==
  IF e.rt_route # "" THEN e.rt_route
  ELSE IF e.trip_id \in DOMAIN trip_route THEN trip_route[e.trip_id] ELSE NoRoute

\* The first event's bound time, as stated: arrival, else departure.
StatedFirstTime(f) == IF f.arr # NoTime THEN f.arr ELSE f.dep

\* The active segment was found and both of its stops have coordinates.
SegResolved == seg # <<>> /\ seg[1].a_stop \in DOMAIN stop_coord /\ b.stop_id \in DOMAIN stop_coord

\* The first event is in the future and its stop has coordinates.
FirstAhead ==
  /\ StatedFirstTime(first) # NoTime
  /\ now < StatedFirstTime(first)
  /\ first.stop_id \in DOMAIN stop_coord

\* C2 (as claimed): no record of the batch makes rt_to_points raise: the
\* function never leaves its loop through an exception.
C2_NeverRaises == pc # "raised"

\* C3 (as claimed): when an active segment exists but the coordinates of one
\* of its two stops are missing, the update gets no estimate at all.
C3_NoEstimateOnLookupFailure ==
  (pc = "done" /\ seg # <<>> /\ ~SegResolved) => added = <<>>

\* C4 (as claimed): a before-first-stop estimate is pinned at the first stop,
\* counts down to the first event's time, and names as next stop the event
\* right after the first one, whatever the length of the update.
C4_PinnedNextStopIsSecond ==
  (pc = "done" /\ outcome = "pinned" /\ seg = <<>> /\ second # "<none>") =>
     /\ Len(added) = 1
     /\ added[1].lat = <<stop_coord[first.stop_id][1], 1>>
     /\ added[1].lon = <<stop_coord[first.stop_id][2], 1>>
     /\ added[1].eta_sec = StatedFirstTime(first) - now
     /\ added[1].next_stop_id = second

C9_EtaNonNegative == \A k \in 1 .. Len(added) : added[k].eta_sec >= 0

C9_Witness ==
  /\ pc = "done"
  /\ outcome = "pinned"
  /\ Len(added) = 1
  /\ added[1].eta_sec > 0

\* C10: the segment used is the first pair in feed order whose bounds
\* (A.departure else A.arrival, B.arrival else B.departure) are both present
\* and enclose now; a pair with a missing bound is passed over and the scan
\* goes on; the estimate names B as next stop with eta max(0, t1 - now).
C10_FirstActiveSegment ==
  /\ ~passed
  /\ seg # <<>> => (seg[1].stated_active /\ seg[1].t0 = seg[1].stated_t0)
  /\ (pc = "done" /\ outcome = "placed") =>
        /\ seg # <<>>
        /\ Len(added) = 1
        /\ added[1].next_stop_id = b.stop_id
        /\ added[1].eta_sec = Max(0, StatedEnd(b) - now)
  /\ (pc = "done" /\ seg # <<>> /\ SegResolved) => outcome = "placed"

C10_Witness ==
  /\ pc = "done"
  /\ outcome = "placed"
  /\ i = 1
  /\ first.arr = NoTime
  /\ first.dep = NoTime
  /\ added[1].next_stop_id = b.stop_id
  /\ b.dep # NoTime
  /\ b.dep < now

\* The local b as the events of the current update alone leave it: the
\* scan assigns b once it reads times[1]; before that b is whatever an
\* earlier update left, and unbound when the update comes first in the batch.
OwnB == IF second = "<none>" THEN Unbound ELSE b

\* C11 (as claimed): an iteration appends at most one estimate, and the
\* estimate of an update is a function of that update, the stop lookup, the
\* trip table and now: a before-first-stop estimate is the one the update
\* gets when it comes first in the batch, built from its own events only.
C11_PerUpdateEstimate ==
  /\ Len(added) <= 1
  /\ (pc = "done" /\ outcome = "pinned") =>
        /\ OwnB # Unbound
        /\ added = <<PinPoint(first, OwnB, now, route_id, ent.trip_id)>>

\* C11, the part that holds: at most one estimate per update, and an
\* estimate from an active segment is built from the update's own events.
C11_SegmentEstimateOwn ==
  /\ Len(added) <= 1
  /\ (pc = "done" /\ outcome = "placed") => (OwnB = b /\ added[1].next_stop_id = OwnB.stop_id)

\* ------------------------------------------------- next_arrivals_for_stop
\* C1 (as claimed): no estimate and no arrival entry comes from a
\* trip-update whose route is known and is not J, Z or M.
C1_NoExcludedRoute ==
  /\ \A k \in 1 .. Len(added) : added[k].route_id \in ROUTES \cup {NoRoute, "?"}
  /\ \A k \in 1 .. Len(result) : result[k].route \in ROUTES \cup {""}

\* C1, the half that rt_to_points keeps: no estimate has an excluded route.
C1_EstimatesOnly == \A k \in 1 .. Len(added) : added[k].route_id \in ROUTES \cup {NoRoute, "?"}

\* The place of s[j] in the stable ascending order of s by time.
Rank(s, j) ==
  1 + Cardinality({m \in 1 .. Len(s) : s[m].t < s[j].t})
    + Cardinality({m \in 1 .. j - 1 : s[m].t = s[j].t})

\* s in ascending order of time, equal times in their order in s.
StableSorted(s) == [k \in 1 .. Len(s) |-> s[CHOOSE j \in 1 .. Len(s) : Rank(s, j) = k]]

\* The first n entries of s.
FirstN(s, n) == [k \in 1 .. (IF n < Len(s) THEN n ELSE Len(s)) |-> s[k]]

\* C5: the result is the first max_results entries of the stable ascending
\* sort of the events at the stop whose time (arrival, else departure) is
\* >= now: sorted, no longer than max_results, no time before now.
C5_RankedArrivals ==
  apc = "returned" =>
     /\ result = FirstN(StableSorted(stated), max_results)
     /\ Len(result) <= max_results
     /\ \A k \in 1 .. Len(result) : result[k].t >= now
     /\ \A k \in 1 .. Len(result), l \in 1 .. Len(result) : k < l => result[k].t <= result[l].t

C5_Witness ==
  /\ apc = "returned"
  /\ Len(stated) > max_results
  /\ Len(result) = 2
  /\ result[1].t = result[2].t
  /\ result[1].route # result[2].route
  /\ stated[1].t > result[1].t
  /\ stated[2] = result[1]

\* ------------------------------------------------- interpolate_on_segment
\* The result is exactly the point p, with fraction num/den equal to f (0 or 1).
IsAt(r, p, f) ==
  /\ r.lat[1] = p[1] * r.lat[2]
  /\ r.lon[1] = p[2] * r.lon[2]
  /\ r.alpha[1] = f * r.alpha[2]

\* C6 (as claimed): for t0 <= t1, t0 = t1 included, the result is stop A
\* with fraction 0 at now = t0 and stop B with fraction 1 at now = t1.
C6_EndpointsAsClaimed ==
  (ires # <<>> /\ iargs.t0 <= iargs.t1) =>
     /\ iargs.now = iargs.t0 => IsAt(ires[1], iargs.a, 0)
     /\ iargs.now = iargs.t1 => IsAt(ires[1], iargs.b, 1)

\* C6 (amended): for t0 <= t1 the result is stop A with fraction 0 at
\* now = t0 (t0 = t1 included), and stop B with fraction 1 at now = t1 when
\* t0 < t1.
C6_Endpoints ==
  (ires # <<>> /\ iargs.t0 <= iargs.t1) =>
     /\ iargs.now = iargs.t0 => IsAt(ires[1], iargs.a, 0)
     /\ (iargs.now = iargs.t1 /\ iargs.t0 < iargs.t1) => IsAt(ires[1], iargs.b, 1)

C6_Witness ==
  /\ ires # <<>>
  /\ iargs.t0 < iargs.t1
  /\ iargs.now = iargs.t1
  /\ iargs.a # iargs.b
  /\ IsAt(ires[1], iargs.b, 1)

\* ------------------------------------------------------- load_rt_entities
\* The fetch of a feed succeeded, directly or through the fallback URL.
Succeeded(l) == l.first = "ok" \/ l.second = "ok"

RECURSIVE MergedEntities(_)
\* The entities of the feeds that succeeded, in feed order.
MergedEntities(lg) ==
  IF lg = <<>> THEN <<>>
  ELSE (IF Succeeded(Head(lg)) THEN Head(lg).entity ELSE <<>>) \o MergedEntities(Tail(lg))

\* C7: load_rt_entities never raises; it fetches every feed, and returns the
\* entities of the feeds whose fetch succeeded, in feed order.
C7_MergedFeeds ==
  /\ lpc # "raised"
  /\ lpc = "returned" => (Len(log) = Len(FeedNames) /\ ents = MergedEntities(log))

C7_Witness ==
  /\ lpc = "returned"
  /\ log[1].first = "ConnectionError"
  /\ log[2].first = "HTTPError"
  /\ log[2].second = "ok"
  /\ log[1].entity # <<>>
  /\ ents = log[2].entity
  /\ ents # <<>>

\* ------------------------------------------------------------ _hash_points
\* The number of times the dict p occurs in the list.
Occurrences(p, points) == Cardinality({k \in 1..Len(points) : points[k] = p})

\* The two lists hold the same points by value, in whatever order.
SamePoints(ps, qs) == \A p \in PointDicts : Occurrences(p, ps) = Occurrences(p, qs)

\* C12 (as claimed): two lists that hold the same points by value have the
\* same signature whatever the order of the lists, so a run whose points are
\* those of the run before, reordered, does not re-create the deck.
C12_OrderInsensitiveSignature ==
  (prev_points # <<>> /\ SamePoints(prev_points[1], train_points)) =>
     /\ hash_points(prev_points[1]) = hash_points(train_points)
     /\ ~recreated

\* C12, the part that holds: a run whose list equals the list of the run
\* before, order included, keeps the deck.
C12_SameListKeepsDeck ==
  (prev_points # <<>> /\ prev_points[1] = train_points) =>
     /\ last_trains_sig = <<hash_points(train_points)>>
     /\ ~recreated

====
